---------------------------- MODULE Spec2Model ----------------------------
(***************************************************************************)
(* Fin-Alpha: the risk analysis pipeline of src/risk.py                    *)
(* (StockRiskAnalyzer.analyze_stock and the methods it calls) and the      *)
(* analyze button of the app (src/main.py, src/ui.py).                     *)
(*                                                                         *)
(* Numbers.  Python floats are modelled by exact numbers:                  *)
(*   - a rational is a pair <<n, d>> in lowest terms with d > 0;           *)
(*     <<0, 0>> is NaN (the first element of pct_change);                  *)
(*   - a value that involves a square root (volatility, sharpe_ratio) is   *)
(*     a record [sgn, sq]: the number sgn * sqrt(sq), sq a rational.       *)
(* Rounding of float64 is not modelled.                                    *)
(***************************************************************************)
EXTENDS Integers, Sequences, FiniteSets, TLC

\* ------------------------------------------------------------------------
\* Bounds of the model
\* ------------------------------------------------------------------------
\* Prices are drawn from 20 .. 20 + MaxDelta.
MaxDelta == 2
\* Price series have 0 .. MinReturns + 1 + MaxExtra prices.
MaxExtra == 1
\* Volatilities handed to _determine_risk_level alone: k / 200, k in 0 .. MaxVolK.
MaxVolK == 70
\* The top-stocks screen is entered at most MaxEntries times.
MaxEntries == 2

\* ------------------------------------------------------------------------
\* Program constants
\* ------------------------------------------------------------------------
\* len(returns) < 30
MinReturns == 30
\* np.sqrt(252), returns.mean() * 252
TradingDays == 252

\* ------------------------------------------------------------------------
\* Exact arithmetic
\* ------------------------------------------------------------------------
Abs(n) == IF n < 0 THEN -n ELSE n

RECURSIVE Gcd(_, _)
Gcd(a, b) == IF b = 0 THEN a ELSE Gcd(b, a % b)

Lcm(a, b) == (a \div Gcd(a, b)) * b

\* n / d in lowest terms, d > 0.
Rat(n, d) == LET g == Gcd(Abs(n), d) IN <<n \div g, d \div g>>

NaN == <<0, 0>>
Zero == <<0, 1>>
One == <<1, 1>>

IsNaN(x) == x[2] = 0

RatAdd(x, y) ==
    LET l == Lcm(x[2], y[2])
    IN  Rat(x[1] * (l \div x[2]) + y[1] * (l \div y[2]), l)

RatNeg(x) == <<-x[1], x[2]>>

RatSub(x, y) == RatAdd(x, RatNeg(y))

RatMul(x, y) ==
    LET g1 == Gcd(Abs(x[1]), y[2])
        g2 == Gcd(Abs(y[1]), x[2])
    IN  Rat((x[1] \div g1) * (y[1] \div g2), (x[2] \div g2) * (y[2] \div g1))

\* 1 / y, for y # 0.
RatInv(y) == IF y[1] < 0 THEN <<-y[2], -y[1]>> ELSE <<y[2], y[1]>>

RatDiv(x, y) == RatMul(x, RatInv(y))

\* a / b < c / d for b, d > 0, by continued fractions: no product is formed.
RECURSIVE FracLess(_, _, _, _)
FracLess(a, b, c, d) ==
    LET qa == a \div b
        qc == c \div d
        ra == a % b
        rc == c % d
    IN  IF qa # qc THEN qa < qc
        ELSE IF rc = 0 THEN FALSE
        ELSE IF ra = 0 THEN TRUE
        ELSE FracLess(d, rc, b, ra)

RatLess(x, y) == FracLess(x[1], x[2], y[1], y[2])

RatLeq(x, y) == ~RatLess(y, x)

RatMax(x, y) == IF RatLess(x, y) THEN y ELSE x

RatMin(x, y) == IF RatLess(y, x) THEN y ELSE x

Sign(x) == IF x[1] > 0 THEN 1 ELSE IF x[1] < 0 THEN -1 ELSE 0

\* The float q as a [sgn, sq] value.
Real(q) == [sgn |-> Sign(q), sq |-> RatMul(q, q)]

\* x > y for two [sgn, sq] values.
RealGreater(x, y) ==
    IF x.sgn # y.sgn THEN x.sgn > y.sgn
    ELSE IF x.sgn = 1 THEN RatLess(y.sq, x.sq)
    ELSE IF x.sgn = -1 THEN RatLess(x.sq, y.sq)
    ELSE FALSE

\* ------------------------------------------------------------------------
\* Series operations (pandas / numpy)
\* ------------------------------------------------------------------------
\* The sequence s with every element evaluated.
Eager(s) == SubSeq(s, 1, Len(s))

\* Sums, products and extrema are formed by halving the range, which keeps
\* the evaluation shallow.
RECURSIVE RangeSum(_, _, _)
RangeSum(s, lo, hi) ==
    IF lo > hi THEN Zero
    ELSE IF lo = hi THEN s[lo]
    ELSE RatAdd(RangeSum(s, lo, (lo + hi) \div 2),
                RangeSum(s, (lo + hi) \div 2 + 1, hi))

RECURSIVE RangeProd(_, _, _)
RangeProd(s, lo, hi) ==
    IF lo > hi THEN One
    ELSE IF lo = hi THEN s[lo]
    ELSE RatMul(RangeProd(s, lo, (lo + hi) \div 2),
                RangeProd(s, (lo + hi) \div 2 + 1, hi))

\* For lo <= hi.
RECURSIVE RangeMax(_, _, _)
RangeMax(s, lo, hi) ==
    IF lo = hi THEN s[lo]
    ELSE RatMax(RangeMax(s, lo, (lo + hi) \div 2),
                RangeMax(s, (lo + hi) \div 2 + 1, hi))

\* For lo <= hi.
RECURSIVE RangeMin(_, _, _)
RangeMin(s, lo, hi) ==
    IF lo = hi THEN s[lo]
    ELSE RatMin(RangeMin(s, lo, (lo + hi) \div 2),
                RangeMin(s, (lo + hi) \div 2 + 1, hi))

SeqSum(s) == RangeSum(s, 1, Len(s))

\* Series.mean()
Mean(s) == RatDiv(SeqSum(s), <<Len(s), 1>>)

\* Series.std() ** 2: the sample variance (ddof = 1), for Len(s) >= 2.
Variance(s) ==
    LET m == Mean(s)
        dev == Eager([i \in 1..Len(s) |->
                        RatMul(RatSub(s[i], m), RatSub(s[i], m))])
    IN  RatDiv(SeqSum(dev), <<Len(s) - 1, 1>>)

\* Series.pct_change(): NaN first, then price[i] / price[i-1] - 1.
pct_change(close) ==
    Eager([i \in 1..Len(close) |->
            IF i = 1 THEN NaN ELSE RatSub(Rat(close[i], close[i - 1]), One)])

NotNaN(x) == ~IsNaN(x)

\* Series.dropna()
dropna(s) == SelectSeq(s, NotNaN)

\* Series.cumprod()
cumprod(s) == Eager([i \in 1..Len(s) |-> RangeProd(s, 1, i)])

\* Series.cummax()
cummax(s) == Eager([i \in 1..Len(s) |-> RangeMax(s, 1, i)])

\* Series.max(), for a non-empty series.
SeqMax(s) == RangeMax(s, 1, Len(s))

\* Series.min(), for a non-empty series.
SeqMin(s) == RangeMin(s, 1, Len(s))

\* The place of s[i] in ascending order (equal values in index order).
Rank(s, i) ==
    1 + Cardinality({j \in 1..Len(s) :
                        \/ RatLess(s[j], s[i])
                        \/ s[j] = s[i] /\ j < i})

\* np.sort
Sorted(s) ==
    LET rank == Eager([i \in 1..Len(s) |-> Rank(s, i)])
    IN  Eager([k \in 1..Len(s) |-> s[CHOOSE i \in 1..Len(s) : rank[i] = k]])

\* Variant: the value at the rank is read from the array as it is given.
percentile_unsorted(a, q) ==
    LET pos == (Len(a) - 1) * q
        lo == pos \div 100
        frac == Rat(pos % 100, 100)
    IN  IF lo + 1 >= Len(a) THEN a[lo + 1]
        ELSE RatAdd(a[lo + 1], RatMul(frac, RatSub(a[lo + 2], a[lo + 1])))

\* np.percentile(a, q): linear interpolation between the two closest ranks.
percentile(a, q) ==
    LET s == Sorted(a)
        pos == (Len(a) - 1) * q
        lo == pos \div 100
        frac == Rat(pos % 100, 100)
    IN  IF lo + 1 >= Len(a) THEN s[lo + 1]
        ELSE RatAdd(s[lo + 1], RatMul(frac, RatSub(s[lo + 2], s[lo + 1])))

\* var_95 and var_99 of lines 90-91.
value_at_risk(rets) ==
    [var_95 |-> percentile(rets, 5), var_99 |-> percentile(rets, 1)]

\* ------------------------------------------------------------------------
\* Values of the program
\* ------------------------------------------------------------------------
\* A call that returned v, and a call that raised an exception.  The message
\* of an exception is the sequence of the pieces it was formatted from.
Return(v) == [raised |-> FALSE, value |-> v]

Raise(type, msg) == [raised |-> TRUE, type |-> type, msg |-> msg]

\* No outcome yet.
None == Return(<<>>)

\* StockRiskAnalyzer.__init__
StockRiskAnalyzer ==
    [risk_thresholds |-> [high |-> Rat(3, 10), medium |-> Rat(15, 100)]]

\* ------------------------------------------------------------------------
\* Strings
\* ------------------------------------------------------------------------
\* A str is the sequence of its pieces: a ticker is spelt character by
\* character, the literal segments of a message are one piece each.
LowerCase ==
    <<"a", "b", "c", "d", "e", "f", "g", "h", "i", "j", "k", "l", "m",
      "n", "o", "p", "q", "r", "s", "t", "u", "v", "w", "x", "y", "z">>

UpperCase ==
    <<"A", "B", "C", "D", "E", "F", "G", "H", "I", "J", "K", "L", "M",
      "N", "O", "P", "Q", "R", "S", "T", "U", "V", "W", "X", "Y", "Z">>

\* Variant: the character as it is.
upper_char_asis(ch) == ch

upper_char(ch) ==
    IF \E i \in 1..Len(LowerCase) : LowerCase[i] = ch
    THEN UpperCase[CHOOSE i \in 1..Len(LowerCase) : LowerCase[i] = ch]
    ELSE ch

\* str.upper()
upper(t) == [i \in 1..Len(t) |-> upper_char(t[i])]

Whitespace == {" "}

\* str.strip()
strip(t) ==
    LET keep == {i \in 1..Len(t) : t[i] \notin Whitespace}
    IN  IF keep = {} THEN <<>>
        ELSE SubSeq(t, CHOOSE i \in keep : \A j \in keep : i <= j,
                       CHOOSE i \in keep : \A j \in keep : j <= i)

\* len(s), in characters
StrLen(s) == IF s = <<>> THEN 0 ELSE RangeSum([i \in 1..Len(s) |-> <<Len(s[i]), 1>>], 1, Len(s))[1]

\* sub in text: the pieces of sub, in order and side by side.
Contains(text, sub) ==
    \E i \in 1..Len(text) : \E j \in i..Len(text) : SubSeq(text, i, j) = sub

\* '{:spec}'.format(x): one piece, written as the format and the number.
Format(spec, x) == "{" \o ToString(x) \o ":" \o spec \o "}"

AAPL == <<"A", "A", "P", "L">>

\* The tickers handed to analyze_stock.
Tickers == {<<"a", "a", "p", "l">>, AAPL, <<"m", "s", "f", "t">>}

\* ------------------------------------------------------------------------
\* The data source (yf.download): what it may answer
\* ------------------------------------------------------------------------
PriceSet == 20 .. (20 + MaxDelta)

\* A series is a head of one to three prices followed by its last price
\* repeated: at most two returns differ from 0, which keeps the exact
\* arithmetic within TLC's integers.
Heads == UNION {[1..k -> PriceSet] : k \in 1..3}

Extend(head, n) ==
    [i \in 1..n |-> IF i <= Len(head) THEN head[i] ELSE head[Len(head)]]

Lengths == 0 .. (MinReturns + 1 + MaxExtra)

PriceSeries == {Extend(h, n) : h \in Heads, n \in Lengths}

DataSourceErrors ==
    { Raise("ConnectionError", <<"Connection refused">>),
      Raise("YFRateLimitError", <<"Too Many Requests">>) }

Downloads == {Return(s) : s \in PriceSeries} \cup DataSourceErrors

\* The answers used where two calls are followed together.
FewHeads ==
    LET lo == 20
        hi == 20 + MaxDelta
    IN  {<<lo>>, <<hi, lo>>, <<lo, hi, lo>>}

FewTickers == {AAPL, <<"m", "s", "f", "t">>}

FewDownloads ==
    {Return(Extend(h, n)) : h \in FewHeads, n \in {0, MinReturns, MinReturns + 1}}
        \cup DataSourceErrors

\* ------------------------------------------------------------------------
\* StockRiskAnalyzer: the methods
\* ------------------------------------------------------------------------
\* Variant: the emptiness of the data is not checked.
_fetch_stock_data_unchecked(download) ==
    IF download.raised THEN download ELSE Return(download.value)

\* _fetch_stock_data, given the outcome of yf.download; data is the Close
\* column.
_fetch_stock_data(download) ==
    IF download.raised THEN download
    ELSE IF download.value = <<>>
         THEN Raise("ValueError", <<"No data found for this ticker">>)
    ELSE Return(download.value)

\* Variant: len(returns) <= 30.
_calculate_returns_leq(data) ==
    LET rets == dropna(pct_change(data))
    IN  IF Len(rets) <= MinReturns
        THEN Raise("ValueError",
                   <<"Insufficient data for analysis (need at least 30 days)">>)
        ELSE Return(rets)

_calculate_returns(data) ==
    LET rets == dropna(pct_change(data))
    IN  IF Len(rets) < MinReturns
        THEN Raise("ValueError",
                   <<"Insufficient data for analysis (need at least 30 days)">>)
        ELSE Return(rets)

\* Variant: the thresholds belong to the higher bracket (>=).
_determine_risk_level_geq(self, volatility) ==
    IF ~RealGreater(Real(self.risk_thresholds.high), volatility)
    THEN <<"HIGH", "high">>
    ELSE IF ~RealGreater(Real(self.risk_thresholds.medium), volatility)
    THEN <<"MEDIUM", "medium">>
    ELSE <<"LOW", "low">>

\* Variant: the colour is named, not the level.
_determine_risk_level_coloured(self, volatility) ==
    IF RealGreater(volatility, Real(self.risk_thresholds.high))
    THEN <<"HIGH", "red">>
    ELSE IF RealGreater(volatility, Real(self.risk_thresholds.medium))
    THEN <<"MEDIUM", "amber">>
    ELSE <<"LOW", "low">>

_determine_risk_level(self, volatility) ==
    IF RealGreater(volatility, Real(self.risk_thresholds.high))
    THEN <<"HIGH", "high">>
    ELSE IF RealGreater(volatility, Real(self.risk_thresholds.medium))
    THEN <<"MEDIUM", "medium">>
    ELSE <<"LOW", "low">>

\* float(returns.std() * np.sqrt(252))
annualized_volatility(rets) ==
    LET v == RatMul(Variance(rets), <<TradingDays, 1>>)
    IN  [sgn |-> Sign(v), sq |-> v]

\* Variant: the drawdown as (cumulative - peak) / peak and its lowest value.
max_drawdown_lowest(rets) ==
    LET cumulative_returns ==
            cumprod(Eager([i \in 1..Len(rets) |-> RatAdd(rets[i], One)]))
        peak == cummax(cumulative_returns)
        drawdown ==
            Eager([i \in 1..Len(rets) |->
                     RatDiv(RatSub(cumulative_returns[i], peak[i]), peak[i])])
    IN  SeqMin(drawdown)

\* Lines 94-97: the largest drawdown of the cumulative returns.
max_drawdown(rets) ==
    LET cumulative_returns ==
            cumprod(Eager([i \in 1..Len(rets) |-> RatAdd(rets[i], One)]))
        peak == cummax(cumulative_returns)
        drawdown ==
            Eager([i \in 1..Len(rets) |->
                     RatDiv(RatSub(peak[i], cumulative_returns[i]), peak[i])])
    IN  SeqMax(drawdown)

\* x / y on Python floats, x a rational and y a [sgn, sq] value.
FloatDiv(x, y) ==
    IF y.sgn = 0
    THEN Raise("ZeroDivisionError", <<"float division by zero">>)
    ELSE Return([sgn |-> Sign(x) * y.sgn,
                 sq |-> RatDiv(RatMul(x, x), y.sq)])

\* Variant: annual_return / annual_volatility, unguarded.
sharpe_ratio_unguarded(annual_return, annual_volatility) ==
    FloatDiv(annual_return, annual_volatility)

\* Variant: the denominator is the volatility of one day.
sharpe_ratio_daily(annual_return, annual_volatility) ==
    IF annual_volatility.sgn # 0
    THEN FloatDiv(annual_return,
                  [annual_volatility EXCEPT !.sq = RatDiv(@, <<TradingDays, 1>>)])
    ELSE Return(Real(Zero))

\* annual_return / annual_volatility if annual_volatility != 0 else 0
sharpe_ratio(annual_return, annual_volatility) ==
    IF annual_volatility.sgn # 0
    THEN FloatDiv(annual_return, annual_volatility)
    ELSE Return(Real(Zero))

\* Variant: the position is counted from the start whatever its sign.
iloc_from_start(s, i) == s[Abs(i)]

\* Series.iloc[i]: position i from the start (0 the first), from the end when
\* i < 0 (-1 the last).
iloc(s, i) == IF i < 0 THEN s[Len(s) + 1 + i] ELSE s[i + 1]

_calculate_risk_metrics(self, tick, data, rets) ==
    LET current_price == <<iloc(data, -1), 1>>
        volatility == annualized_volatility(rets)
        var_95 == value_at_risk(rets).var_95
        var_99 == value_at_risk(rets).var_99
        annual_return == RatMul(Mean(rets), <<TradingDays, 1>>)
        annual_volatility == annualized_volatility(rets)
        sharpe == sharpe_ratio(annual_return, annual_volatility)
        risk == _determine_risk_level(self, volatility)
    IN  IF sharpe.raised THEN sharpe
        ELSE Return([ticker |-> upper(tick),
                     current_price |-> current_price,
                     volatility |-> volatility,
                     var_95 |-> var_95,
                     var_99 |-> var_99,
                     max_drawdown |-> max_drawdown(rets),
                     sharpe_ratio |-> sharpe.value,
                     risk_level |-> risk[1],
                     risk_color |-> risk[2]])

\* Variant: the error is swallowed and the call returns None.
except_Exception_swallowed(e) == None

\* except Exception as e: raise Exception(f"Analysis failed: {str(e)}")
except_Exception(e) == Raise("Exception", <<"Analysis failed: ">> \o e.msg)

\* StockRiskApp._perform_analysis: the except clause that handles e.
except_clause(e) ==
    IF e.type = "ValueError" THEN "except ValueError" ELSE "except Exception"

\* analyze_stock run from its first to its last line on one answer of the
\* data source.
analyze_stock(self, tick, download) ==
    LET fetched == _fetch_stock_data(download)
        rets == _calculate_returns(fetched.value)
        metrics == _calculate_risk_metrics(self, tick, fetched.value, rets.value)
    IN  IF fetched.raised THEN except_Exception(fetched)
        ELSE IF rets.raised THEN except_Exception(rets)
        ELSE IF metrics.raised THEN except_Exception(metrics)
        ELSE metrics

\* ------------------------------------------------------------------------
\* StockRiskAnalyzer.format_results
\* ------------------------------------------------------------------------
\* One piece, or none for the empty str.
Piece(s) == IF s = "" THEN <<>> ELSE <<s>>

color_map ==
    [high |-> "[color=#FF5252]",
     medium |-> "[color=#FFC107]",
     low |-> "[color=#4CAF50]"]

\* The f-string of format_results, piece by piece ("* " stands for the
\* bullet).
format_results(metrics) ==
    LET color_tag == IF metrics.risk_color \in DOMAIN color_map
                     THEN color_map[metrics.risk_color] ELSE ""
        end_tag == IF color_tag # "" THEN "[/color]" ELSE ""
    IN  <<"ANALYSIS RESULTS FOR ">> \o metrics.ticker
        \o <<"\n\n", "Current Price: $", Format(".2f", metrics.current_price),
             "\n\n", "RISK METRICS:", "\n",
             "* Annual Volatility: ", Format(".1%", metrics.volatility), "\n",
             "* Value at Risk (95%): ", Format(".2%", metrics.var_95), " daily", "\n",
             "* Value at Risk (99%): ", Format(".2%", metrics.var_99), " daily", "\n",
             "* Maximum Drawdown: ", Format(".1%", metrics.max_drawdown), "\n",
             "* Sharpe Ratio: ", Format(".2f", metrics.sharpe_ratio),
             "\n\n", "Risk Level: ">>
        \o Piece(color_tag) \o <<metrics.risk_level>> \o Piece(end_tag)

\* StockRiskAnalyzer._get_risk_interpretation
_get_risk_interpretation(risk_level) ==
    IF risk_level = "LOW"
    THEN "This stock has relatively low volatility and is considered less risky."
    ELSE IF risk_level = "MEDIUM"
    THEN "This stock has moderate volatility. Consider your risk tolerance."
    ELSE IF risk_level = "HIGH"
    THEN "This stock is highly volatile and risky. Only suitable for risk-tolerant investors."
    ELSE "Risk level assessment unavailable."

\* The f-string of format_results_detailed, piece by piece (the heading of
\* the metrics without its pictogram).
format_results_detailed(metrics) ==
    <<"DETAILED ANALYSIS FOR ">> \o metrics.ticker
    \o <<"\n\n", "Current Price: $", Format(".2f", metrics.current_price),
         "\n\n", "RISK METRICS EXPLAINED:", "\n\n",
         "Annual Volatility: ", Format(".1%", metrics.volatility), "\n   ",
         "Measures how much the stock price fluctuates", "\n\n",
         "Value at Risk (95%): ", Format(".2%", metrics.var_95), " daily", "\n   ",
         "Maximum expected daily loss 95% of the time", "\n\n",
         "Value at Risk (99%): ", Format(".2%", metrics.var_99), " daily", "\n   ",
         "Maximum expected daily loss 99% of the time", "\n\n",
         "Maximum Drawdown: ", Format(".1%", metrics.max_drawdown), "\n   ",
         "Largest peak-to-trough decline", "\n\n",
         "Sharpe Ratio: ", Format(".2f", metrics.sharpe_ratio), "\n   ",
         "Risk-adjusted return (higher is better)", "\n\n",
         "Risk Level: ", metrics.risk_level, "\n\n",
         _get_risk_interpretation(metrics.risk_level)>>

\* ------------------------------------------------------------------------
\* The convenience functions of risk.py
\* ------------------------------------------------------------------------
\* Variant: the ticker is reported as it was given.
get_formatted_analysis_verbatim(tick, detailed, metrics) ==
    IF metrics.raised
    THEN Return(<<"ERROR ANALYZING ">> \o tick \o <<"\n\n">> \o metrics.msg
                \o <<"\n\n", "Please check the ticker symbol and try again.">>)
    ELSE IF detailed
    THEN Return(format_results_detailed(metrics.value))
    ELSE Return(format_results(metrics.value))

\* get_formatted_analysis, once analyzer.analyze_stock(ticker) has ended as
\* metrics.
get_formatted_analysis(tick, detailed, metrics) ==
    IF metrics.raised
    THEN Return(<<"ERROR ANALYZING ">> \o upper(tick) \o <<"\n\n">> \o metrics.msg
                \o <<"\n\n", "Please check the ticker symbol and try again.">>)
    ELSE IF detailed
    THEN Return(format_results_detailed(metrics.value))
    ELSE Return(format_results(metrics.value))

\* get_risk_summary, once analyzer.analyze_stock(ticker) has ended as metrics.
get_risk_summary(tick, metrics) ==
    IF metrics.raised
    THEN Return(<<"Unable to analyze ">> \o tick \o <<": ">> \o metrics.msg)
    ELSE Return(<<"Quick Summary for ">> \o metrics.value.ticker
                \o <<":", "\n", "Price: $",
                     Format(".2f", metrics.value.current_price), "\n",
                     "Volatility: ", Format(".1%", metrics.value.volatility),
                     "\n", "Risk: ", metrics.value.risk_level>>)

\* ------------------------------------------------------------------------
\* StockAnalyzerLayout (src/ui.py)
\* ------------------------------------------------------------------------
\* Colours, in tenths.
White == <<10, 10, 10, 10>>

\* create_ui and __init__: the widgets as they are built.  detailed_results
\* is set by the first set_result_text; last_style records the style of the
\* most recent set_result_text ("none" before the first).
StockAnalyzerLayout ==
    [ticker_input |-> [text |-> <<>>],
     analyze_button |-> [text |-> "ANALYZE STOCK", disabled |-> FALSE],
     company_logo |-> [opacity |-> 0, download |-> FALSE],
     result_label |-> [text |-> <<>>, color |-> White],
     more_info_button |-> [opacity |-> 0, disabled |-> TRUE],
     detailed_results |-> <<>>,
     last_style |-> "none"]

get_ticker_input(self) == upper(strip(self.ticker_input.text))

\* A ticker gets its logo downloaded by a scheduled callback.
load_company_logo(self) ==
    IF get_ticker_input(self) = <<>> THEN self
    ELSE [self EXCEPT !.company_logo.download = TRUE]

hide_company_logo(self) == [self EXCEPT !.company_logo.opacity = 0]

RiskLevelText(level) == <<"Risk Level: ", level>>

\* Variant: only "error" and "warning" hide the More Information button.
set_result_text_info_shown(self, text, style) ==
    LET show_more_info == style \notin {"error", "warning"}
        shown == [self EXCEPT
                     !.detailed_results = text,
                     !.last_style = style,
                     !.more_info_button =
                         [opacity |-> IF show_more_info THEN 1 ELSE 0,
                          disabled |-> ~show_more_info]]
        Simple(level, color) ==
            load_company_logo(
                [shown EXCEPT !.result_label =
                                  [text |-> RiskLevelText(level), color |-> color]])
    IN  IF Contains(text, RiskLevelText("HIGH"))
        THEN Simple("HIGH", <<10, 1, 1, 10>>)
        ELSE IF Contains(text, RiskLevelText("MEDIUM"))
        THEN Simple("MEDIUM", <<10, 8, 2, 10>>)
        ELSE IF Contains(text, RiskLevelText("LOW"))
        THEN Simple("LOW", <<1, 10, 1, 10>>)
        ELSE hide_company_logo(
                 [shown EXCEPT !.result_label = [text |-> text, color |-> White]])

set_result_text(self, text, style) ==
    LET show_more_info == style \notin {"error", "warning", "info"}
        shown == [self EXCEPT
                     !.detailed_results = text,
                     !.last_style = style,
                     !.more_info_button =
                         [opacity |-> IF show_more_info THEN 1 ELSE 0,
                          disabled |-> ~show_more_info]]
        Simple(level, color) ==
            load_company_logo(
                [shown EXCEPT !.result_label =
                                  [text |-> RiskLevelText(level), color |-> color]])
    IN  IF Contains(text, RiskLevelText("HIGH"))
        THEN Simple("HIGH", <<10, 1, 1, 10>>)
        ELSE IF Contains(text, RiskLevelText("MEDIUM"))
        THEN Simple("MEDIUM", <<10, 8, 2, 10>>)
        ELSE IF Contains(text, RiskLevelText("LOW"))
        THEN Simple("LOW", <<1, 10, 1, 10>>)
        ELSE hide_company_logo(
                 [shown EXCEPT !.result_label = [text |-> text, color |-> White]])

AnalyzingText ==
    <<"Analyzing stock data...",
      "\n\n", "Fetching market data and calculating risk metrics.">>

\* Variant: the button is relabelled and stays enabled.
set_loading_state_relabelled(self, is_loading) ==
    IF is_loading
    THEN set_result_text(
             [self EXCEPT !.analyze_button.text = "ANALYZING..."],
             AnalyzingText, "info")
    ELSE [self EXCEPT !.analyze_button =
                          [text |-> "ANALYZE STOCK", disabled |-> FALSE]]

\* Variant: the button is not given back.
set_loading_state_kept(self, is_loading) ==
    IF is_loading
    THEN set_result_text(
             [self EXCEPT !.analyze_button =
                              [text |-> "ANALYZING...", disabled |-> TRUE]],
             AnalyzingText, "info")
    ELSE self

set_loading_state(self, is_loading) ==
    IF is_loading
    THEN set_result_text(
             [self EXCEPT !.analyze_button =
                              [text |-> "ANALYZING...", disabled |-> TRUE]],
             AnalyzingText, "info")
    ELSE [self EXCEPT !.analyze_button =
                          [text |-> "ANALYZE STOCK", disabled |-> FALSE]]

\* ------------------------------------------------------------------------
\* StockRiskApp (src/main.py): texts and helpers
\* ------------------------------------------------------------------------
WelcomeText ==
    <<"Ready to analyze stocks!", "\n\n", "How it works:", "\n",
      "Start by entering a ticker symbol above!">>

EnterTickerText ==
    <<"Please enter a ticker symbol", "\n\n", "Example: AAPL, GOOGL, TSLA">>

InvalidTickerText(t) ==
    <<"Invalid ticker: ">> \o t \o <<"\n\n", "Should be 1-10 characters.">>

FetchingText(t) ==
    <<"Fetching data for ">> \o t \o <<"...", "\n\n", "Please wait.">>

UnableText(t) ==
    <<"Unable to analyze ">> \o t
        \o <<"\n\n", "Ticker may not exist. Try a different symbol.">>

\* error_msg of the two except clauses.
ErrorText(t, e) ==
    <<"ERROR: ">> \o t \o <<"\n\n">> \o e.msg
        \o <<"\n\n",
             IF except_clause(e) = "except ValueError"
             THEN "Try: AAPL, GOOGL, MSFT"
             ELSE "Check internet connection and try again.">>

\* if metrics: an object is true, None is not.
truthy(v) == v # None.value

\* a, b = s for a str s: one target for each character of s.
unpack_pair(s) ==
    IF StrLen(s) > 2
    THEN Raise("ValueError", <<"too many values to unpack (expected 2)">>)
    ELSE IF StrLen(s) < 2
    THEN Raise("ValueError",
               <<"not enough values to unpack (expected 2, got ",
                 ToString(StrLen(s)), ")">>)
    ELSE Return(<<SubSeq(s, 1, 1), SubSeq(s, 2, 2)>>)

\* on_start: the welcome text.
on_start(self) == set_result_text(self, WelcomeText, "info")

\* ------------------------------------------------------------------------
\* The percentile step on its own
\* ------------------------------------------------------------------------
\* The return series rets as drawn, in its present order, and the
\* percentiles of the present order.
Sample(rets) == [drawn |-> rets, returns |-> rets, var |-> value_at_risk(rets)]

NoSample == [drawn |-> <<>>, returns |-> <<>>, var |-> <<>>]

SampleHeads == FewHeads \cup {<<20 + MaxDelta, 19 + MaxDelta, 20>>}

\* The returns of MinReturns + 1 prices.
SampleReturns ==
    {dropna(pct_change(Extend(h, MinReturns + 1))) : h \in SampleHeads}

\* Reorderings of n places that generate all of them: a rotation, the
\* exchange of the first two and the reversal.
Reorderings(n) ==
    { [i \in 1..n |-> (i % n) + 1],
      [i \in 1..n |-> IF i = 1 THEN 2 ELSE IF i = 2 THEN 1 ELSE i],
      [i \in 1..n |-> n + 1 - i] }

\* ------------------------------------------------------------------------
\* The screens: DetailScreen, TopStocksScreen and the ScreenManager
\* ------------------------------------------------------------------------
\* HistoryChartGarden.__init__: no canvas yet.
HistoryChartGarden == [canvas_widget |-> <<>>]

\* What stock.history may answer: prices, an empty frame, or an error.
Histories ==
    {Return(<<"prices">>), Return(<<>>),
     Raise("ConnectionError", <<"Connection refused">>)}

\* HistoryChartGarden.load_data: the chart it leaves and how it ended.  The
\* canvas is the figure, known by its title.
load_data(self, tick, hist) ==
    IF hist.raised
    THEN [self |-> self, outcome |-> hist]
    ELSE IF hist.value = <<>>
    THEN [self |-> self,
          outcome |-> Raise("ValueError", <<"No data available for this ticker">>)]
    ELSE [self |-> [self EXCEPT !.canvas_widget =
                                    tick \o <<" - 1 Year Price History">>],
          outcome |-> None]

\* DetailScreen.__init__.  ticker records the argument of the most recent
\* show_ticker_details.
DetailScreen ==
    [chart |-> HistoryChartGarden,
     detail_label |-> [text |-> <<>>],
     ticker |-> <<>>]

\* DetailScreen.show_ticker_details
show_ticker_details(self, tick, detailed_text, hist) ==
    LET loaded == load_data(self.chart, tick, hist)
    IN  IF loaded.outcome.raised
        THEN [self EXCEPT
                 !.ticker = tick,
                 !.detail_label.text =
                     <<"Error loading data: ">> \o loaded.outcome.msg]
        ELSE [self EXCEPT
                 !.ticker = tick,
                 !.chart = loaded.self,
                 !.detail_label.text = detailed_text]

\* TopStocksScreen.__init__: the content hidden, the loading label shown.
\* entries counts the times the screen was made current, fetches the runs of
\* _fetch_and_display_stocks.
TopStocksScreen ==
    [content_widget |-> [opacity |-> 0],
     loading_label |-> [opacity |-> 1],
     content_layout |-> <<>>,
     entries |-> 0,
     fetches |-> 0]

\* from risk import get_top_low_risk_stocks: risk.py defines no such name.
import_get_top_low_risk_stocks ==
    Raise("ImportError",
          <<"cannot import name 'get_top_low_risk_stocks' from 'risk'">>)

\* The Label of an error.
error_label(text) == [widget |-> "Label", text |-> text]

\* TopStocksScreen._create_stock_card: the card, known by its rank label.
_create_stock_card(metrics, rank) ==
    [widget |-> "SimpleCard", text |-> <<"#" \o ToString(rank)>>]

\* Variant: the overlay is not touched at the end.
_fetch_and_display_stocks_unfinished(self, top_stocks) ==
    [self EXCEPT
        !.fetches = @ + 1,
        !.content_layout =
            IF top_stocks.raised
            THEN <<error_label(<<"Error loading stocks:\n">> \o top_stocks.msg)>>
            ELSE IF top_stocks.value = <<>>
            THEN <<error_label(<<"No low-risk stocks found.\nPlease check your internet connection.">>)>>
            ELSE [i \in 1..Len(top_stocks.value) |->
                     _create_stock_card(top_stocks.value[i], i)]]

\* TopStocksScreen._fetch_and_display_stocks from try to finally; top_stocks
\* is how the import and the call of get_top_low_risk_stocks(5) ended.  Both
\* the try block and the except clause clear the list before they add to it.
_fetch_and_display_stocks(self, top_stocks) ==
    [self EXCEPT
        !.fetches = @ + 1,
        !.content_layout =
            IF top_stocks.raised
            THEN <<error_label(<<"Error loading stocks:\n">> \o top_stocks.msg)>>
            ELSE IF top_stocks.value = <<>>
            THEN <<error_label(<<"No low-risk stocks found.\nPlease check your internet connection.">>)>>
            ELSE [i \in 1..Len(top_stocks.value) |->
                     _create_stock_card(top_stocks.value[i], i)],
        !.loading_label.opacity = 0,
        !.content_widget.opacity = 1]

\* create_main_ui: the three screens, 'main' added first and so current.  The
\* layout of the main screen is the variable layout.  A change of current
\* starts the transition; touches are not delivered while it is active.
create_main_ui ==
    [current |-> "main",
     transition |-> [is_active |-> FALSE],
     detail |-> DetailScreen,
     topstocks |-> TopStocksScreen]

\* sm.current = name
set_current(sm, name) ==
    IF sm.current = name
    THEN sm
    ELSE [sm EXCEPT !.current = name, !.transition.is_active = TRUE]

\* The screen sm shows takes touches.
touchable(sm, name) == sm.current = name /\ ~sm.transition.is_active

\* ------------------------------------------------------------------------
\* State
\* ------------------------------------------------------------------------
\* The calls of analyze_stock that are followed: two threads of the caller.
Calls == {"a", "b"}

VARIABLES
    risk_analyzer,  \* the StockRiskAnalyzer object (self)
    pc,             \* pc[c]: where call c stands in analyze_stock
    ticker,         \* ticker[c]: the argument of call c
    downloaded,     \* downloaded[c]: what yf.download answered in call c
    data,           \* data[c]: the local variable data
    returns,        \* returns[c]: the local variable returns
    result,         \* result[c]: what call c returned or raised
    downloads,      \* downloads[c]: how often call c has invoked yf.download
    entered,        \* entered[c]: the methods call c has entered
    probe,          \* a volatility and what _determine_risk_level made of it
    layout,         \* the StockAnalyzerLayout of the main screen: its widgets
    clock,          \* the callbacks handed to Clock.schedule_once, not yet run
    taken,          \* the branches the last _perform_analysis went through
    sample,         \* a return series, reordered, and its percentiles
    screen_manager  \* the ScreenManager, its current screen and its screens

vars == <<risk_analyzer, pc, ticker, downloaded, data, returns, result,
          downloads, entered, probe, layout, clock, taken, sample,
          screen_manager>>

\* The volatility k / 200, not classified yet.
Probe(k) == [k |-> k, volatility |-> Real(Rat(k, 200)), level |-> <<>>]

Init ==
    /\ risk_analyzer = StockRiskAnalyzer
    /\ pc = [c \in Calls |-> "idle"]
    /\ ticker = [c \in Calls |-> <<>>]
    /\ downloaded = [c \in Calls |-> None]
    /\ data = [c \in Calls |-> <<>>]
    /\ returns = [c \in Calls |-> <<>>]
    /\ result = [c \in Calls |-> None]
    /\ downloads = [c \in Calls |-> 0]
    /\ entered = [c \in Calls |-> {}]
    /\ probe = Probe(0)
    /\ layout = StockAnalyzerLayout
    /\ clock = <<>>
    /\ taken = <<>>
    /\ sample = NoSample
    /\ screen_manager = create_main_ui

\* ------------------------------------------------------------------------
\* analyze_stock, step by step
\* ------------------------------------------------------------------------
\* The caller invokes analyzer.analyze_stock(t).
analyze_stock_call(c, t) ==
    /\ pc[c] \in {"idle", "done"}
    /\ pc' = [pc EXCEPT ![c] = "fetch"]
    /\ ticker' = [ticker EXCEPT ![c] = t]
    /\ downloaded' = [downloaded EXCEPT ![c] = None]
    /\ data' = [data EXCEPT ![c] = <<>>]
    /\ returns' = [returns EXCEPT ![c] = <<>>]
    /\ result' = [result EXCEPT ![c] = None]
    /\ downloads' = [downloads EXCEPT ![c] = 0]
    /\ entered' = [entered EXCEPT ![c] = {}]
    /\ UNCHANGED <<risk_analyzer, probe>>
    /\ UNCHANGED <<layout, clock, taken, sample, screen_manager>>

\* Variant: a failed download is tried once more.
analyze_stock_fetch_retrying(c, download) ==
    /\ pc[c] = "fetch"
    /\ downloaded' = [downloaded EXCEPT ![c] = download]
    /\ downloads' = [downloads EXCEPT ![c] = @ + 1]
    /\ entered' = [entered EXCEPT ![c] = @ \cup {"_fetch_stock_data"}]
    /\ LET r == _fetch_stock_data(download)
       IN  IF download.raised /\ downloads[c] = 0
           THEN UNCHANGED <<result, pc, data>>
           ELSE IF r.raised
           THEN /\ result' = [result EXCEPT ![c] = except_Exception(r)]
                /\ pc' = [pc EXCEPT ![c] = "done"]
                /\ UNCHANGED data
           ELSE /\ data' = [data EXCEPT ![c] = r.value]
                /\ pc' = [pc EXCEPT ![c] = "returns"]
                /\ UNCHANGED result
    /\ UNCHANGED <<risk_analyzer, ticker, returns, probe>>
    /\ UNCHANGED <<layout, clock, taken, sample, screen_manager>>

\* data = self._fetch_stock_data(ticker, period); yf.download answers download.
analyze_stock_fetch(c, download) ==
    /\ pc[c] = "fetch"
    /\ downloaded' = [downloaded EXCEPT ![c] = download]
    /\ downloads' = [downloads EXCEPT ![c] = @ + 1]
    /\ entered' = [entered EXCEPT ![c] = @ \cup {"_fetch_stock_data"}]
    /\ LET r == _fetch_stock_data(download)
       IN  IF r.raised
           THEN /\ result' = [result EXCEPT ![c] = except_Exception(r)]
                /\ pc' = [pc EXCEPT ![c] = "done"]
                /\ UNCHANGED data
           ELSE /\ data' = [data EXCEPT ![c] = r.value]
                /\ pc' = [pc EXCEPT ![c] = "returns"]
                /\ UNCHANGED result
    /\ UNCHANGED <<risk_analyzer, ticker, returns, probe>>
    /\ UNCHANGED <<layout, clock, taken, sample, screen_manager>>

\* Variant: data is kept on the analyzer, so the returns are computed from
\* the data another call has stored in the meantime.
analyze_stock_returns_shared(c) ==
    /\ pc[c] = "returns"
    /\ entered' = [entered EXCEPT ![c] = @ \cup {"_calculate_returns"}]
    /\ LET o == CHOOSE x \in Calls : x # c
           d == IF pc[o] \in {"returns", "metrics"} THEN data[o] ELSE data[c]
           r == _calculate_returns(d)
       IN  IF r.raised
           THEN /\ result' = [result EXCEPT ![c] = except_Exception(r)]
                /\ pc' = [pc EXCEPT ![c] = "done"]
                /\ UNCHANGED returns
           ELSE /\ returns' = [returns EXCEPT ![c] = r.value]
                /\ pc' = [pc EXCEPT ![c] = "metrics"]
                /\ UNCHANGED result
    /\ UNCHANGED <<risk_analyzer, ticker, downloaded, data, downloads, probe>>
    /\ UNCHANGED <<layout, clock, taken, sample, screen_manager>>

\* Variant: a call that finds too little data halves the analyzer's
\* thresholds.
analyze_stock_returns_relaxing(c) ==
    /\ pc[c] = "returns"
    /\ entered' = [entered EXCEPT ![c] = @ \cup {"_calculate_returns"}]
    /\ LET r == _calculate_returns(data[c])
           th == risk_analyzer.risk_thresholds
       IN  IF r.raised
           THEN /\ result' = [result EXCEPT ![c] = except_Exception(r)]
                /\ pc' = [pc EXCEPT ![c] = "done"]
                /\ risk_analyzer' =
                       [risk_thresholds |->
                           [high |-> RatMul(th.high, Rat(1, 2)),
                            medium |-> RatMul(th.medium, Rat(1, 2))]]
                /\ UNCHANGED returns
           ELSE /\ returns' = [returns EXCEPT ![c] = r.value]
                /\ pc' = [pc EXCEPT ![c] = "metrics"]
                /\ UNCHANGED <<result, risk_analyzer>>
    /\ UNCHANGED <<ticker, downloaded, data, downloads, probe>>
    /\ UNCHANGED <<layout, clock, taken, sample, screen_manager>>

\* returns = self._calculate_returns(data)
analyze_stock_returns(c) ==
    /\ pc[c] = "returns"
    /\ entered' = [entered EXCEPT ![c] = @ \cup {"_calculate_returns"}]
    /\ LET r == _calculate_returns(data[c])
       IN  IF r.raised
           THEN /\ result' = [result EXCEPT ![c] = except_Exception(r)]
                /\ pc' = [pc EXCEPT ![c] = "done"]
                /\ UNCHANGED returns
           ELSE /\ returns' = [returns EXCEPT ![c] = r.value]
                /\ pc' = [pc EXCEPT ![c] = "metrics"]
                /\ UNCHANGED result
    /\ UNCHANGED <<risk_analyzer, ticker, downloaded, data, downloads, probe>>
    /\ UNCHANGED <<layout, clock, taken, sample, screen_manager>>

\* Variant: an analysis that finds HIGH doubles the analyzer's thresholds.
analyze_stock_metrics_recalibrating(c) ==
    /\ pc[c] = "metrics"
    /\ entered' = [entered EXCEPT ![c] = @ \cup {"_calculate_risk_metrics"}]
    /\ LET r == _calculate_risk_metrics(risk_analyzer, ticker[c], data[c], returns[c])
           th == risk_analyzer.risk_thresholds
       IN  /\ result' = [result EXCEPT ![c] = IF r.raised THEN except_Exception(r) ELSE r]
           /\ risk_analyzer' =
                  IF ~r.raised /\ r.value.risk_level = "HIGH"
                  THEN [risk_thresholds |->
                           [high |-> RatAdd(th.high, th.high),
                            medium |-> RatAdd(th.medium, th.medium)]]
                  ELSE risk_analyzer
    /\ pc' = [pc EXCEPT ![c] = "done"]
    /\ UNCHANGED <<ticker, downloaded, data, returns, downloads, probe>>
    /\ UNCHANGED <<layout, clock, taken, sample, screen_manager>>

\* metrics = self._calculate_risk_metrics(ticker, data, returns); return metrics
analyze_stock_metrics(c) ==
    /\ pc[c] = "metrics"
    /\ entered' = [entered EXCEPT ![c] = @ \cup {"_calculate_risk_metrics"}]
    /\ LET r == _calculate_risk_metrics(risk_analyzer, ticker[c], data[c], returns[c])
       IN  result' = [result EXCEPT ![c] = IF r.raised THEN except_Exception(r) ELSE r]
    /\ pc' = [pc EXCEPT ![c] = "done"]
    /\ UNCHANGED <<risk_analyzer, ticker, downloaded, data, returns, downloads, probe>>
    /\ UNCHANGED <<layout, clock, taken, sample, screen_manager>>

\* One call at a time, on any answer of the data source.
Next ==
    \/ \E t \in Tickers : analyze_stock_call("a", t)
    \/ \E d \in Downloads : analyze_stock_fetch("a", d)
    \/ analyze_stock_returns("a")
    \/ analyze_stock_metrics("a")

Spec == Init /\ [][Next]_vars

\* Two calls on the same analyzer, their steps interleaved in any order.
NextConc ==
    \E c \in Calls :
        \/ \E t \in FewTickers : analyze_stock_call(c, t)
        \/ \E d \in FewDownloads : analyze_stock_fetch(c, d)
        \/ analyze_stock_returns(c)
        \/ analyze_stock_metrics(c)

SpecConc == Init /\ [][NextConc]_vars

\* ------------------------------------------------------------------------
\* _determine_risk_level on its own
\* ------------------------------------------------------------------------
InitLevel ==
    /\ risk_analyzer = StockRiskAnalyzer
    /\ pc = [c \in Calls |-> "idle"]
    /\ ticker = [c \in Calls |-> <<>>]
    /\ downloaded = [c \in Calls |-> None]
    /\ data = [c \in Calls |-> <<>>]
    /\ returns = [c \in Calls |-> <<>>]
    /\ result = [c \in Calls |-> None]
    /\ downloads = [c \in Calls |-> 0]
    /\ entered = [c \in Calls |-> {}]
    /\ probe \in {Probe(k) : k \in (-MaxVolK) .. MaxVolK}
    /\ layout = StockAnalyzerLayout
    /\ clock = <<>>
    /\ taken = <<>>
    /\ sample = NoSample
    /\ screen_manager = create_main_ui

determine_risk_level ==
    /\ probe.level = <<>>
    /\ probe' = [probe EXCEPT
                    !.level = _determine_risk_level(risk_analyzer, probe.volatility)]
    /\ UNCHANGED <<risk_analyzer, pc, ticker, downloaded, data, returns, result,
                   downloads, entered>>
    /\ UNCHANGED <<layout, clock, taken, sample, screen_manager>>

NextLevel == determine_risk_level

SpecLevel == InitLevel /\ [][NextLevel]_vars

\* ------------------------------------------------------------------------
\* The percentile step on reordered returns
\* ------------------------------------------------------------------------
InitPercentile ==
    /\ risk_analyzer = StockRiskAnalyzer
    /\ pc = [c \in Calls |-> "idle"]
    /\ ticker = [c \in Calls |-> <<>>]
    /\ downloaded = [c \in Calls |-> None]
    /\ data = [c \in Calls |-> <<>>]
    /\ returns = [c \in Calls |-> <<>>]
    /\ result = [c \in Calls |-> None]
    /\ downloads = [c \in Calls |-> 0]
    /\ entered = [c \in Calls |-> {}]
    /\ probe = Probe(0)
    /\ layout = StockAnalyzerLayout
    /\ clock = <<>>
    /\ taken = <<>>
    /\ sample \in {Sample(r) : r \in SampleReturns}
    /\ screen_manager = create_main_ui

\* var_95 and var_99 of the returns taken in the order f.
percentile_step(f) ==
    /\ LET rets == [i \in 1..Len(sample.returns) |-> sample.returns[f[i]]]
       IN  sample' = [sample EXCEPT !.returns = rets, !.var = value_at_risk(rets)]
    /\ UNCHANGED <<risk_analyzer, pc, ticker, downloaded, data, returns, result,
                   downloads, entered, probe, layout, clock, taken,
                   screen_manager>>

NextPercentile ==
    \E f \in Reorderings(Len(sample.returns)) : percentile_step(f)

SpecPercentile == InitPercentile /\ [][NextPercentile]_vars

\* ------------------------------------------------------------------------
\* StockRiskApp: the analyze button and the scheduled analysis
\* ------------------------------------------------------------------------
\* What the user may have typed into the ticker field.
TickerTexts ==
    { <<>>, <<" ">>,
      <<"a", "a", "p", "l">>,
      <<" ">> \o AAPL \o <<" ">>,
      <<"m", "s", "f", "t">>,
      <<"v", "e", "r", "y", "l", "o", "n", "g", "t", "k", "r">> }

\* The answers of the data source to the scheduled analysis.
SomeDownloads ==
    {Return(Extend(h, n)) : h \in FewHeads, n \in Lengths} \cup DataSourceErrors

\* The app after build() and on_start().
InitApp ==
    /\ risk_analyzer = StockRiskAnalyzer
    /\ pc = [c \in Calls |-> "idle"]
    /\ ticker = [c \in Calls |-> <<>>]
    /\ downloaded = [c \in Calls |-> None]
    /\ data = [c \in Calls |-> <<>>]
    /\ returns = [c \in Calls |-> <<>>]
    /\ result = [c \in Calls |-> None]
    /\ downloads = [c \in Calls |-> 0]
    /\ entered = [c \in Calls |-> {}]
    /\ probe = Probe(0)
    /\ layout = on_start(StockAnalyzerLayout)
    /\ clock = <<>>
    /\ taken = <<>>
    /\ sample = NoSample
    /\ screen_manager = create_main_ui

\* The user edits the ticker field.
ticker_input_text(text) ==
    /\ touchable(screen_manager, "main")
    /\ layout.ticker_input.text # text
    /\ layout' = [layout EXCEPT !.ticker_input.text = text]
    /\ UNCHANGED <<risk_analyzer, pc, ticker, downloaded, data, returns, result,
                   downloads, entered, probe, clock, taken, sample,
                   screen_manager>>

\* Variant: the length of the ticker is not checked.
on_analyze_button_pressed_unchecked ==
    /\ ~layout.analyze_button.disabled
    /\ LET t == get_ticker_input(layout)
       IN  IF t = <<>>
           THEN /\ layout' = set_result_text(layout, EnterTickerText, "warning")
                /\ UNCHANGED clock
           ELSE /\ layout' = set_loading_state(layout, TRUE)
                /\ clock' = Append(clock, [callback |-> "_perform_analysis",
                                           ticker |-> t])
    /\ pc' = [pc EXCEPT !["a"] = "idle"]
    /\ ticker' = [ticker EXCEPT !["a"] = <<>>]
    /\ downloaded' = [downloaded EXCEPT !["a"] = None]
    /\ result' = [result EXCEPT !["a"] = None]
    /\ downloads' = [downloads EXCEPT !["a"] = 0]
    /\ taken' = <<>>
    /\ UNCHANGED <<risk_analyzer, data, returns, entered, probe, sample,
                   screen_manager>>

\* A press of the analyze button; a disabled button takes no press.  The
\* analysis that is scheduled is call "a", not begun.
on_analyze_button_pressed ==
    /\ ~layout.analyze_button.disabled
    /\ LET t == get_ticker_input(layout)
       IN  IF t = <<>>
           THEN /\ layout' = set_result_text(layout, EnterTickerText, "warning")
                /\ UNCHANGED clock
           ELSE IF Len(t) < 1 \/ Len(t) > 10
           THEN /\ layout' = set_result_text(layout, InvalidTickerText(t), "warning")
                /\ UNCHANGED clock
           ELSE /\ layout' = set_loading_state(layout, TRUE)
                /\ clock' = Append(clock, [callback |-> "_perform_analysis",
                                           ticker |-> t])
    /\ pc' = [pc EXCEPT !["a"] = "idle"]
    /\ ticker' = [ticker EXCEPT !["a"] = <<>>]
    /\ downloaded' = [downloaded EXCEPT !["a"] = None]
    /\ result' = [result EXCEPT !["a"] = None]
    /\ downloads' = [downloads EXCEPT !["a"] = 0]
    /\ taken' = <<>>
    /\ UNCHANGED <<risk_analyzer, data, returns, entered, probe, sample,
                   screen_manager>>

\* The try block once analyze_stock has ended as outcome: the layout it
\* leaves, what it raised and the branch of "if metrics" it took.
try_block(self, t, outcome) ==
    IF outcome.raised
    THEN [layout |-> self, exc |-> outcome, taken |-> <<>>]
    ELSE IF truthy(outcome.value)
    THEN LET unpacked == unpack_pair(format_results(outcome.value))
         IN  IF unpacked.raised
             THEN [layout |-> self, exc |-> unpacked, taken |-> <<"if metrics">>]
             ELSE [layout |-> set_result_text(self, unpacked.value[1],
                                              unpacked.value[2]),
                   exc |-> None, taken |-> <<"if metrics">>]
    ELSE [layout |-> set_result_text(self, UnableText(t), "error"),
          exc |-> None, taken |-> <<"else">>]

\* The except clauses, for what the try block left.
except_block(t, body) ==
    IF body.exc.raised
    THEN [layout |-> set_result_text(body.layout, ErrorText(t, body.exc), "error"),
          taken |-> body.taken \o <<except_clause(body.exc)>>]
    ELSE [layout |-> body.layout, taken |-> body.taken]

\* The scheduled callback, from try to finally; yf.download answers download.
_perform_analysis(download) ==
    /\ clock # <<>>
    /\ Head(clock).callback = "_perform_analysis"
    /\ downloaded' = [downloaded EXCEPT !["a"] = download]
    /\ downloads' = [downloads EXCEPT !["a"] = 1]
    /\ ticker' = [ticker EXCEPT !["a"] = Head(clock).ticker]
    /\ \E metrics \in {analyze_stock(risk_analyzer, Head(clock).ticker, download)} :
       \E fetching \in {set_result_text(layout, FetchingText(Head(clock).ticker),
                                        "info")} :
       \E body \in {try_block(fetching, Head(clock).ticker, metrics)} :
       \E handled \in {except_block(Head(clock).ticker, body)} :
           /\ result' = [result EXCEPT !["a"] = metrics]
           /\ taken' = handled.taken \o <<"finally">>
           /\ layout' = set_loading_state(handled.layout, FALSE)
    /\ pc' = [pc EXCEPT !["a"] = "done"]
    /\ clock' = Tail(clock)
    /\ UNCHANGED <<risk_analyzer, data, returns, entered, probe, sample,
                   screen_manager>>

NextApp ==
    \/ \E text \in TickerTexts : ticker_input_text(text)
    \/ on_analyze_button_pressed
    \/ \E d \in SomeDownloads : _perform_analysis(d)

SpecApp == InitApp /\ [][NextApp]_vars

\* Clock.schedule_once: the Kivy main loop runs every scheduled callback.
FairSpecApp ==
    SpecApp /\ WF_vars(\E d \in SomeDownloads : _perform_analysis(d))

\* ------------------------------------------------------------------------
\* The screens as components: the layout shown results by its client
\* ------------------------------------------------------------------------
\* The styles with which the client shows results.
ClientStyles == {"info", "low"}

\* What the user types into the ticker field while the screens are followed.
FewTickerTexts == {<<>>, <<"a", "a", "p", "l">>, <<"m", "s", "f", "t">>}

\* The answers of the data source to the analyses of the client.
ShownDownloads ==
    {Return(Extend(h, MinReturns + 1)) : h \in {<<20>>, <<20 + MaxDelta, 20>>}}

\* The analyses of the client: the ticker read from the field, the answer
\* of the data source and what analyze_stock made of them.
ShownAnalyses ==
    { [ticker |-> get_ticker_input([StockAnalyzerLayout EXCEPT !.ticker_input.text = text]),
       download |-> d,
       metrics |-> analyze_stock(StockRiskAnalyzer,
                                 get_ticker_input([StockAnalyzerLayout
                                                       EXCEPT !.ticker_input.text = text]),
                                 d)] :
          text \in FewTickerTexts \ {<<>>}, d \in ShownDownloads }

\* The client of the layout has analysed the ticker of the field and shows
\* the formatted results: set_result_text(text, style).  The analysis is
\* call "a".
show_results(analysis, style) ==
    /\ touchable(screen_manager, "main")
    /\ analysis.ticker = get_ticker_input(layout)
    /\ ~analysis.metrics.raised
    /\ layout' = set_result_text(layout, format_results(analysis.metrics.value), style)
    /\ ticker' = [ticker EXCEPT !["a"] = analysis.ticker]
    /\ downloaded' = [downloaded EXCEPT !["a"] = analysis.download]
    /\ result' = [result EXCEPT !["a"] = analysis.metrics]
    /\ UNCHANGED <<risk_analyzer, pc, data, returns, downloads, entered, probe,
                   clock, taken, sample, screen_manager>>

\* StockAnalyzerLayout.show_details: a press of the More Information button,
\* which a disabled button does not take; stock.history answers hist.
show_details(hist) ==
    /\ touchable(screen_manager, "main")
    /\ ~layout.more_info_button.disabled
    /\ \E shown \in {show_ticker_details(screen_manager.detail,
                                         get_ticker_input(layout),
                                         layout.detailed_results, hist)} :
           screen_manager' =
               set_current([screen_manager EXCEPT !.detail = shown], "detail")
    /\ UNCHANGED <<risk_analyzer, pc, ticker, downloaded, data, returns, result,
                   downloads, entered, probe, layout, clock, taken, sample>>

\* detail_screen.back_button: sm.current = 'main'
detail_screen_back_button ==
    /\ touchable(screen_manager, "detail")
    /\ screen_manager' = set_current(screen_manager, "main")
    /\ UNCHANGED <<risk_analyzer, pc, ticker, downloaded, data, returns, result,
                   downloads, entered, probe, layout, clock, taken, sample>>

\* detail_screen.top_stocks_button: sm.current = 'topstocks'
detail_screen_top_stocks_button ==
    /\ touchable(screen_manager, "detail")
    /\ screen_manager.topstocks.entries < MaxEntries
    /\ screen_manager' =
           set_current([screen_manager EXCEPT !.topstocks.entries = @ + 1],
                       "topstocks")
    /\ UNCHANGED <<risk_analyzer, pc, ticker, downloaded, data, returns, result,
                   downloads, entered, probe, layout, clock, taken, sample>>

\* Variant: the Back button of the top-stocks screen leads to the main screen.
top_stocks_screen_back_button_home ==
    /\ touchable(screen_manager, "topstocks")
    /\ screen_manager' = set_current(screen_manager, "main")
    /\ UNCHANGED <<risk_analyzer, pc, ticker, downloaded, data, returns, result,
                   downloads, entered, probe, layout, clock, taken, sample>>

\* top_stocks_screen.back_button: sm.current = 'detail'
top_stocks_screen_back_button ==
    /\ touchable(screen_manager, "topstocks")
    /\ screen_manager' = set_current(screen_manager, "detail")
    /\ UNCHANGED <<risk_analyzer, pc, ticker, downloaded, data, returns, result,
                   downloads, entered, probe, layout, clock, taken, sample>>

\* The transition completes and the screen that came in gets on_enter, to
\* which the top-stocks screen has bound load_top_stocks:
\* Clock.schedule_once(self._fetch_and_display_stocks, 0.1).
on_enter ==
    /\ screen_manager.transition.is_active
    /\ screen_manager' = [screen_manager EXCEPT !.transition.is_active = FALSE]
    /\ IF screen_manager.current = "topstocks"
       THEN clock' = Append(clock, [callback |-> "_fetch_and_display_stocks",
                                    ticker |-> <<>>])
       ELSE UNCHANGED clock
    /\ UNCHANGED <<risk_analyzer, pc, ticker, downloaded, data, returns, result,
                   downloads, entered, probe, layout, taken, sample>>

\* The scheduled callback of the top-stocks screen.
fetch_and_display_stocks ==
    /\ clock # <<>>
    /\ Head(clock).callback = "_fetch_and_display_stocks"
    /\ screen_manager' =
           [screen_manager EXCEPT
               !.topstocks = _fetch_and_display_stocks(@, import_get_top_low_risk_stocks)]
    /\ clock' = Tail(clock)
    /\ UNCHANGED <<risk_analyzer, pc, ticker, downloaded, data, returns, result,
                   downloads, entered, probe, layout, taken, sample>>

NextScreens ==
    \/ \E text \in FewTickerTexts : ticker_input_text(text)
    \/ \E analysis \in ShownAnalyses : \E style \in ClientStyles :
           show_results(analysis, style)
    \/ \E hist \in Histories : show_details(hist)
    \/ detail_screen_back_button
    \/ detail_screen_top_stocks_button
    \/ top_stocks_screen_back_button
    \/ on_enter
    \/ fetch_and_display_stocks

SpecScreens == InitApp /\ [][NextScreens]_vars

\* The Kivy main loop completes every transition and runs every scheduled
\* callback.
FairSpecScreens ==
    SpecScreens /\ WF_vars(on_enter) /\ WF_vars(fetch_and_display_stocks)

\* ------------------------------------------------------------------------
\* The convenience functions on their own
\* ------------------------------------------------------------------------
\* Call "a" is a call of get_formatted_analysis, call "b" one of
\* get_risk_summary, both with the same ticker and answer of the data source.
InitSummary ==
    /\ risk_analyzer = StockRiskAnalyzer
    /\ pc = [c \in Calls |-> "idle"]
    /\ \E t \in Tickers : ticker = [c \in Calls |-> t]
    /\ \E d \in FewDownloads : downloaded = [c \in Calls |-> d]
    /\ data = [c \in Calls |-> <<>>]
    /\ returns = [c \in Calls |-> <<>>]
    /\ result = [c \in Calls |-> None]
    /\ downloads = [c \in Calls |-> 0]
    /\ entered = [c \in Calls |-> {}]
    /\ probe = Probe(0)
    /\ layout = StockAnalyzerLayout
    /\ clock = <<>>
    /\ taken = <<>>
    /\ sample = NoSample
    /\ screen_manager = create_main_ui

formatted_analysis(detailed) ==
    /\ pc["a"] = "idle"
    /\ \E metrics \in {analyze_stock(StockRiskAnalyzer, ticker["a"], downloaded["a"])} :
           result' = [result EXCEPT
                         !["a"] = get_formatted_analysis(ticker["a"], detailed, metrics)]
    /\ entered' = [entered EXCEPT !["a"] = IF detailed THEN {"detailed"} ELSE {}]
    /\ pc' = [pc EXCEPT !["a"] = "done"]
    /\ UNCHANGED <<risk_analyzer, ticker, downloaded, data, returns, downloads,
                   probe, layout, clock, taken, sample, screen_manager>>

risk_summary ==
    /\ pc["b"] = "idle"
    /\ \E metrics \in {analyze_stock(StockRiskAnalyzer, ticker["b"], downloaded["b"])} :
           result' = [result EXCEPT !["b"] = get_risk_summary(ticker["b"], metrics)]
    /\ pc' = [pc EXCEPT !["b"] = "done"]
    /\ UNCHANGED <<risk_analyzer, ticker, downloaded, data, returns, downloads,
                   entered, probe, layout, clock, taken, sample, screen_manager>>

NextSummary ==
    \/ \E detailed \in BOOLEAN : formatted_analysis(detailed)
    \/ risk_summary

SpecSummary == InitSummary /\ [][NextSummary]_vars

\* ------------------------------------------------------------------------
\* Claims
\* ------------------------------------------------------------------------
NoDataMessage == <<"No data found for this ticker">>

InsufficientDataMessage ==
    <<"Insufficient data for analysis (need at least 30 days)">>

\* Call c has ended on a price series (of any length) from the data source.
EndedOnSeries(c) == pc[c] = "done" /\ ~downloaded[c].raised

\* Call c has ended on a failure of the data source.
EndedOnSourceFailure(c) == pc[c] = "done" /\ downloaded[c].raised

Succeeded(c) == pc[c] = "done" /\ ~result[c].raised

\* C1: _determine_risk_level(v) is HIGH iff v > 0.30, MEDIUM iff
\* 0.15 < v <= 0.30 and LOW iff v <= 0.15 (v = k / 200: 0.30 is k = 60 and
\* 0.15 is k = 30).
C1_RiskLevelByThreshold ==
    probe.level # <<>> =>
        /\ probe.level[1] = "HIGH" <=> probe.k > 60
        /\ probe.level[1] = "MEDIUM" <=> (30 < probe.k /\ probe.k <= 60)
        /\ probe.level[1] = "LOW" <=> probe.k <= 30

C1_Witness == probe.k = 60 /\ probe.level = <<"MEDIUM", "medium">>

\* C2: on a non-empty series of n prices analyze_stock fails with the
\* insufficient-data error when n <= 30 and returns a RiskMetrics when n >= 31.
C2_LengthBoundary ==
    \A c \in Calls :
        EndedOnSeries(c) /\ Len(downloaded[c].value) >= 1 =>
            IF Len(downloaded[c].value) <= 30
            THEN result[c].raised /\ Contains(result[c].msg, InsufficientDataMessage)
            ELSE /\ ~result[c].raised
                 /\ result[c].value.risk_level \in {"LOW", "MEDIUM", "HIGH"}

C2_Witness ==
    /\ EndedOnSeries("a") /\ Len(downloaded["a"].value) = 31
    /\ ~result["a"].raised

\* C3: on an empty series analyze_stock fails with the no-data error, and
\* neither _calculate_returns nor _calculate_risk_metrics is entered.
C3_EmptySeriesFailsFirst ==
    \A c \in Calls :
        downloads[c] > 0 /\ ~downloaded[c].raised /\ downloaded[c].value = <<>> =>
            /\ pc[c] = "done"
            /\ result[c].raised
            /\ Contains(result[c].msg, NoDataMessage)
            /\ entered[c] \cap {"_calculate_returns", "_calculate_risk_metrics"} = {}

C3_Witness ==
    /\ EndedOnSeries("a") /\ downloaded["a"].value = <<>>
    /\ result["a"].raised

\* C4: the error analyze_stock reports has a kind per cause: the two
\* validation failures (empty series, fewer than 30 returns) reach the caller
\* as ValueError and are handled by the caller's ValueError clause, a failure
\* of the data source is of another kind.
C4_ErrorKindPerCause ==
    \A c \in Calls :
        pc[c] = "done" /\ result[c].raised =>
            IF downloaded[c].raised
            THEN /\ result[c].type # "ValueError"
                 /\ except_clause(result[c]) = "except Exception"
            ELSE /\ result[c].type = "ValueError"
                 /\ except_clause(result[c]) = "except ValueError"

\* C5: when the data source fails with message m, analyze_stock fails with a
\* message that contains m, and the data source was invoked exactly once.
C5_SourceFailureWrappedOnce ==
    \A c \in Calls :
        EndedOnSourceFailure(c) =>
            /\ result[c].raised
            /\ Contains(result[c].msg, downloaded[c].msg)
            /\ downloads[c] = 1

C5_Witness ==
    /\ EndedOnSourceFailure("a")
    /\ result["a"].msg = <<"Analysis failed: ", "Too Many Requests">>

IsConstant(s) == \A i \in 1..Len(s) : s[i] = s[1]

\* C6: on a constant series of at least 31 prices analyze_stock returns
\* volatility = 0, sharpe_ratio = 0 and risk_level = LOW.
C6_ConstantSeries ==
    \A c \in Calls :
        /\ EndedOnSeries(c)
        /\ Len(downloaded[c].value) >= 31
        /\ IsConstant(downloaded[c].value)
        => /\ ~result[c].raised
           /\ result[c].value.volatility = Real(Zero)
           /\ result[c].value.sharpe_ratio = Real(Zero)
           /\ result[c].value.risk_level = "LOW"

C6_Witness ==
    /\ EndedOnSeries("a")
    /\ Len(downloaded["a"].value) >= 31
    /\ IsConstant(downloaded["a"].value)
    /\ ~result["a"].raised

PeakToTrough(p) ==
    LET D == {Rat(p[ij[1]] - p[ij[2]], p[ij[1]]) :
                ij \in {x \in (1..Len(p)) \X (1..Len(p)) : x[1] <= x[2]}}
    IN  CHOOSE x \in D : \A y \in D : RatLeq(y, x)

\* C8: max_drawdown is the largest peak-to-trough decline over the whole
\* price series, the first price counted as a possible peak.
C8_LargestPeakToTrough ==
    \A c \in Calls :
        Succeeded(c) =>
            result[c].value.max_drawdown = PeakToTrough(downloaded[c].value)

\* C9: two calls that receive the same ticker and the same price series
\* return equal results, whatever calls were made in between.
C9_SameInputSameResult ==
    /\ pc["a"] = "done" /\ pc["b"] = "done"
    /\ ticker["a"] = ticker["b"]
    /\ downloaded["a"] = downloaded["b"]
    => result["a"] = result["b"]

C9_Witness ==
    /\ Succeeded("a") /\ Succeeded("b")
    /\ ticker["a"] = ticker["b"]
    /\ downloaded["a"] = downloaded["b"]
    /\ result["a"].value.risk_level = "HIGH"

\* C10: two interleaved calls for different tickers each work on their own
\* data and return what they return when run alone.
C10_InterleavedAsAlone ==
    ticker["a"] # ticker["b"] =>
        \A c \in Calls :
            /\ pc[c] \in {"returns", "metrics"} => data[c] = downloaded[c].value
            /\ pc[c] = "metrics" =>
                  _calculate_returns(downloaded[c].value) = Return(returns[c])
            /\ pc[c] = "done" =>
                  result[c] = analyze_stock(StockRiskAnalyzer, ticker[c], downloaded[c])

C10_Witness ==
    /\ pc["a"] = "metrics" /\ pc["b"] = "returns"
    /\ ticker["a"] # ticker["b"]
    /\ data["a"] # data["b"]

\* The scheduled analysis has run, and analyze_stock returned a RiskMetrics
\* in it.
Analysed == pc["a"] = "done" /\ taken # <<>>

AnalysedMetrics == Analysed /\ ~result["a"].raised

\* C11: for every RiskMetrics analyze_stock produces, the text of
\* format_results contains "Risk Level: " immediately followed by the level
\* keyword, so that set_result_text's substring test for that level matches
\* and the label reads "Risk Level: <LEVEL>".
C11_LevelFollowsLabel ==
    AnalysedMetrics =>
        LET metrics == result["a"].value
            text == format_results(metrics)
        IN  /\ Contains(text, RiskLevelText(metrics.risk_level))
            /\ set_result_text(layout, text, metrics.risk_color).result_label.text
                   = RiskLevelText(metrics.risk_level)

\* The analyze button while an analysis is pending, and otherwise.
Loading == layout.analyze_button = [text |-> "ANALYZING...", disabled |-> TRUE]

Idle == layout.analyze_button = [text |-> "ANALYZE STOCK", disabled |-> FALSE]

\* C12: every press that enters Loading (button disabled, "ANALYZING...") is
\* eventually followed by Idle (button enabled, "ANALYZE STOCK") with the
\* analysis run, whether analyze_stock returned metrics or raised.
C12_LoadingLeadsToIdle == Loading ~> (Idle /\ Analysed)

C12_Witness == Idle /\ AnalysedMetrics /\ result["a"].value.risk_level = "HIGH"

\* C13: when analyze_stock returned a RiskMetrics in _perform_analysis, the
\* text the result label shows on the return to Idle is "Risk Level: <LEVEL>"
\* for that ticker, and no error message is displayed.
C13_SuccessShown ==
    AnalysedMetrics /\ Idle =>
        /\ layout.result_label.text = RiskLevelText(result["a"].value.risk_level)
        /\ ~Contains(layout.detailed_results, <<"ERROR: ">>)
        /\ "except ValueError" \notin {taken[i] : i \in 1..Len(taken)}

\* u is t with every lower-case letter replaced by its capital.
IsUpperOf(u, t) ==
    /\ Len(u) = Len(t)
    /\ \A i \in 1..Len(t) :
          /\ \A k \in 1..Len(LowerCase) : u[i] # LowerCase[k]
          /\ \/ u[i] = t[i]
             \/ \E k \in 1..Len(LowerCase) : t[i] = LowerCase[k] /\ u[i] = UpperCase[k]

\* s and t differ at most in the case of their letters.
SameButCase(s, t) ==
    /\ Len(s) = Len(t)
    /\ \A i \in 1..Len(s) :
          \/ s[i] = t[i]
          \/ \E k \in 1..Len(LowerCase) :
                {s[i], t[i]} = {LowerCase[k], UpperCase[k]}

\* C14: on success RiskMetrics.ticker is the upper-case form of the ticker
\* given to analyze_stock, so tickers that differ only in case yield the same
\* ticker field.
C14_TickerUpperCase ==
    \A c \in Calls :
        Succeeded(c) =>
            /\ IsUpperOf(result[c].value.ticker, ticker[c])
            /\ \A t \in Tickers :
                  SameButCase(t, ticker[c]) =>
                      \A m \in {_calculate_risk_metrics(risk_analyzer, t, data[c],
                                                        returns[c])} :
                          ~m.raised /\ m.value.ticker = result[c].value.ticker

C14_Witness ==
    /\ Succeeded("a")
    /\ ticker["a"] = <<"a", "a", "p", "l">>
    /\ result["a"].value.ticker = AAPL

\* str.lower() of the three level keywords.
LevelLower ==
    [l \in {"HIGH", "MEDIUM", "LOW"} |->
        CASE l = "HIGH" -> "high" [] l = "MEDIUM" -> "medium" [] l = "LOW" -> "low"]

\* C15: in every RiskMetrics analyze_stock produces, risk_color is the
\* lower-case form of risk_level: (HIGH, high), (MEDIUM, medium), (LOW, low)
\* are the only pairs.
C15_ColorMirrorsLevel ==
    \A c \in Calls :
        Succeeded(c) =>
            /\ result[c].value.risk_level \in DOMAIN LevelLower
            /\ result[c].value.risk_color = LevelLower[result[c].value.risk_level]

C15_Witness ==
    /\ Succeeded("a")
    /\ result["a"].value.risk_level = "MEDIUM"
    /\ result["a"].value.risk_color = "medium"

\* C16: a call of analyze_stock, succeeding or failing, leaves the
\* analyzer's risk_thresholds at high = 0.30 and medium = 0.15, so what a
\* call returns or raises is determined by its own ticker and price series,
\* whatever calls came before.
C16_ConfigurationUnchanged ==
    /\ risk_analyzer.risk_thresholds = [high |-> Rat(30, 100), medium |-> Rat(15, 100)]
    /\ \A c \in Calls :
          pc[c] = "done" /\ downloads[c] > 0 =>
              \A r \in {analyze_stock(StockRiskAnalyzer, ticker[c], downloaded[c])} :
                  result[c] = r

C16_Witness ==
    /\ Succeeded("a")
    /\ result["a"].value.risk_level = "HIGH"
    /\ risk_analyzer = StockRiskAnalyzer

\* C17: var_95 and var_99 depend only on the multiset of the returns: on
\* every reordering of the returns as drawn the percentile step yields the
\* var_95 and var_99 of the returns as drawn.
C17_PercentileOrderFree ==
    sample.drawn # <<>> => sample.var = value_at_risk(sample.drawn)

C17_Witness ==
    /\ sample.returns # sample.drawn
    /\ sample.returns[Len(sample.returns)] # Zero
    /\ RatLess(sample.var.var_95, Zero)
    /\ RatLess(sample.var.var_99, sample.var.var_95)

\* x * y for two [sgn, sq] values.
RealMul(x, y) == [sgn |-> x.sgn * y.sgn, sq |-> RatMul(x.sq, y.sq)]

\* C18: the denominator of sharpe_ratio is the reported volatility: whenever
\* volatility # 0, sharpe_ratio * volatility = mean(returns) * 252, and
\* sharpe_ratio = 0 exactly when volatility = 0 or mean(returns) = 0.
C18_SharpeTimesVolatility ==
    \A c \in Calls :
        Succeeded(c) =>
            LET m == result[c].value
                mean == Mean(returns[c])
            IN  /\ m.volatility.sgn # 0 =>
                       RealMul(m.sharpe_ratio, m.volatility)
                           = Real(RatMul(mean, <<TradingDays, 1>>))
                /\ m.sharpe_ratio.sgn = 0 <=> (m.volatility.sgn = 0 \/ mean = Zero)

C18_Witness ==
    /\ Succeeded("a")
    /\ result["a"].value.volatility.sgn = 1
    /\ result["a"].value.sharpe_ratio.sgn = -1

\* C19: on success RiskMetrics.current_price is the last (most recent)
\* price of the series.
C19_CurrentPriceIsLast ==
    \A c \in Calls :
        Succeeded(c) =>
            LET prices == downloaded[c].value
            IN  result[c].value.current_price = <<prices[Len(prices)], 1>>

C19_Witness ==
    /\ Succeeded("a")
    /\ downloaded["a"].value[1] # downloaded["a"].value[Len(downloaded["a"].value)]
    /\ result["a"].value.current_price = <<20, 1>>

\* v is a RiskMetrics object.
IsRiskMetrics(v) ==
    DOMAIN v = {"ticker", "current_price", "volatility", "var_95", "var_99",
                "max_drawdown", "sharpe_ratio", "risk_level", "risk_color"}

Rejected(t) == t = <<>> \/ Len(t) > 10

\* C21: a press of the analyze button whose stripped ticker is empty or
\* longer than 10 characters shows a warning and does nothing else: Loading
\* is not entered, the button stays enabled, no analysis is scheduled or run.
C21_RejectedPressWarnsOnly ==
    [][ on_analyze_button_pressed /\ Rejected(get_ticker_input(layout)) =>
            /\ layout'.result_label.text
                   \in {EnterTickerText, InvalidTickerText(get_ticker_input(layout))}
            /\ layout'.analyze_button = layout.analyze_button
            /\ Idle' /\ ~Loading'
            /\ clock' = <<>>
            /\ pc'["a"] = "idle" ]_vars

C21_Witness ==
    /\ Len(get_ticker_input(layout)) > 10
    /\ layout.result_label.text = InvalidTickerText(get_ticker_input(layout))
    /\ Idle
    /\ clock = <<>>

\* C22: at most one analysis is pending at any time: from the accepted
\* press until _perform_analysis has finished the analyze button is
\* disabled, so no second press is accepted and no second _perform_analysis
\* is scheduled.
C22_OnePendingAnalysis ==
    /\ Len(clock) <= 1
    /\ clock # <<>> <=> Loading
    /\ clock # <<>> => layout.analyze_button.disabled /\ ~ENABLED on_analyze_button_pressed

C22_Witness ==
    /\ Len(clock) = 1
    /\ layout.analyze_button.disabled
    /\ layout.ticker_input.text # <<"m", "s", "f", "t">>
    /\ clock[1].ticker = <<"M", "S", "F", "T">>

\* The styles a caller may hand to set_result_text.
Styles == {"error", "warning", "info", "low", "medium", "high", "success"}

Plain == {"none", "error", "warning", "info"}

\* The More Information button of the layout self is visible exactly when
\* it is enabled, and enabled exactly when the last style is not plain.
MoreInfoFollowsStyle(self) ==
    /\ self.more_info_button.opacity \in {0, 1}
    /\ self.more_info_button.opacity = 1 <=> ~self.more_info_button.disabled
    /\ ~self.more_info_button.disabled <=> self.last_style \notin Plain

\* C23: in every reachable state of the main screen the More Information
\* button is visible (opacity 1) exactly when it is enabled, and enabled
\* exactly when the most recent set_result_text had a style other than
\* "error", "warning" and "info", whatever style the next call has; it is
\* hidden and disabled initially and during Loading.
C23_MoreInfoButton ==
    /\ MoreInfoFollowsStyle(layout)
    /\ \A style \in Styles :
          \A next \in {set_result_text(layout, layout.detailed_results, style)} :
              /\ next.last_style = style
              /\ MoreInfoFollowsStyle(next)
    /\ MoreInfoFollowsStyle(StockAnalyzerLayout)
    /\ StockAnalyzerLayout.more_info_button = [opacity |-> 0, disabled |-> TRUE]
    /\ Loading => layout.more_info_button = [opacity |-> 0, disabled |-> TRUE]

C23_Witness ==
    /\ Loading
    /\ layout.last_style = "info"
    /\ layout.more_info_button = [opacity |-> 0, disabled |-> TRUE]
    /\ ~set_result_text(layout, layout.detailed_results, "low").more_info_button.disabled

\* C24: once the application is back in Idle after an analysis in which
\* analyze_stock returned a RiskMetrics, the More Information button is
\* enabled and visible, so that a press of it can open the detail screen.
C24_MoreInfoAfterSuccess ==
    AnalysedMetrics /\ Idle =>
        layout.more_info_button = [opacity |-> 1, disabled |-> FALSE]

\* The screen changes from one screen to another in this step.
ScreenChange(from, to) ==
    screen_manager.current = from /\ screen_manager'.current = to

\* C25: the current screen starts as 'main' and is always one of 'main',
\* 'detail' and 'topstocks'; every change of it is main -> detail (by a
\* press of the enabled More Information button), detail -> main,
\* detail -> topstocks or topstocks -> detail, so 'topstocks' is never
\* entered from 'main' and its Back button never leads to 'main'.
C25_ScreenChanges ==
    /\ screen_manager.current = "main"
    /\ [](screen_manager.current \in {"main", "detail", "topstocks"})
    /\ [][ screen_manager'.current # screen_manager.current =>
               \/ ScreenChange("main", "detail") /\ ~layout.more_info_button.disabled
               \/ ScreenChange("detail", "main")
               \/ ScreenChange("detail", "topstocks")
               \/ ScreenChange("topstocks", "detail") ]_vars

\* The top-stocks screen was entered from the detail screen and left by its
\* Back button, and the detail screen by its own: every change has happened.
C25_Witness ==
    /\ screen_manager.current = "main"
    /\ ~screen_manager.transition.is_active
    /\ screen_manager.topstocks.entries >= 1
    /\ screen_manager.detail.ticker # <<>>

\* The loading label of the screen top is hidden and its content visible.
Shown(top) == top.loading_label.opacity = 0 /\ top.content_widget.opacity = 1

\* The content list of the screen top holds exactly one error label.
OneErrorLabel(top, e) ==
    top.content_layout = <<error_label(<<"Error loading stocks:\n">> \o e.msg)>>

\* How the import and the call of the fetch may end: a list of stocks, an
\* empty list, an exception.
FetchOutcomes ==
    { Return(<<"AAPL", "MSFT">>), Return(<<>>), import_get_top_low_risk_stocks,
      Raise("ConnectionError", <<"Connection refused">>) }

\* C26: every entry into the top-stocks screen (the k-th, for every k) is
\* eventually followed by the run of the fetch it scheduled, after which the
\* loading label is hidden (opacity 0) and the content visible (opacity 1),
\* the content list holding exactly one error label because the import
\* fails; and whichever way the fetch ends (a list, an empty list, an
\* exception) the callback leaves the label hidden and the content visible,
\* with exactly one error label when it raised.
C26_TopStocksShown ==
    /\ \A k \in 1..MaxEntries :
           (screen_manager.topstocks.entries = k)
               ~> /\ screen_manager.topstocks.fetches >= k
                  /\ Shown(screen_manager.topstocks)
                  /\ OneErrorLabel(screen_manager.topstocks,
                                   import_get_top_low_risk_stocks)
    /\ [](\A outcome \in FetchOutcomes :
              \A top \in {_fetch_and_display_stocks(screen_manager.topstocks, outcome)} :
                  /\ Shown(top)
                  /\ outcome.raised => OneErrorLabel(top, outcome)
                  /\ ~outcome.raised => Len(top.content_layout) >= 1)

C26_Witness ==
    /\ screen_manager.current = "topstocks"
    /\ screen_manager.topstocks.entries = MaxEntries
    /\ screen_manager.topstocks.fetches = MaxEntries
    /\ Shown(screen_manager.topstocks)
    /\ OneErrorLabel(screen_manager.topstocks, import_get_top_low_risk_stocks)

StartsWith(text, prefix) ==
    Len(text) >= Len(prefix) /\ SubSeq(text, 1, Len(prefix)) = prefix

\* What analyze_stock makes of the ticker and the answer of call c.
Analysis(c) == analyze_stock(StockRiskAnalyzer, ticker[c], downloaded[c])

\* C28: get_formatted_analysis (call "a") and get_risk_summary (call "b")
\* never raise; when analyze_stock fails with the message m, the first
\* returns a text that starts with "ERROR ANALYZING " and the ticker in
\* upper case and contains m, the second a text that starts with
\* "Unable to analyze " and contains m.
C28_ConvenienceNeverRaise ==
    /\ pc["a"] = "done" =>
           \A failed \in {Analysis("a")} :
               /\ ~result["a"].raised
               /\ failed.raised =>
                      /\ StartsWith(result["a"].value, <<"ERROR ANALYZING ">>)
                      /\ \E u \in {SubSeq(result["a"].value, 2, 1 + Len(ticker["a"]))} :
                             IsUpperOf(u, ticker["a"])
                      /\ Contains(result["a"].value, failed.msg)
    /\ pc["b"] = "done" =>
           \A failed \in {Analysis("b")} :
               /\ ~result["b"].raised
               /\ failed.raised =>
                      /\ StartsWith(result["b"].value, <<"Unable to analyze ">>)
                      /\ Contains(result["b"].value, failed.msg)

C28_Witness ==
    /\ pc = [c \in Calls |-> "done"]
    /\ ticker["a"] = <<"a", "a", "p", "l">>
    /\ downloaded["a"] = Return(<<>>)
    /\ Analysis("a").raised
    /\ StartsWith(result["a"].value, <<"ERROR ANALYZING ">> \o AAPL)
    /\ StartsWith(result["b"].value, <<"Unable to analyze ", "a", "a", "p", "l">>)

=============================================================================
